---------------------------- MODULE Spec2Model ----------------------------
(***************************************************************************)
(* TruthLens (ai_misinformation_tool_react_single_file.jsx).               *)
(*                                                                         *)
(* Two layers are modelled:                                                *)
(*   - the heuristic engine: clamp, fakeConfidenceFromSignals and          *)
(*     mockAnalyze, as operators over character sequences (a JavaScript    *)
(*     string is a sequence of one-character strings here, so that         *)
(*     String.includes, String.match, toLowerCase and trim are computed    *)
(*     and not assumed);                                                   *)
(*   - the App component: its useState cells and the asynchronous          *)
(*     analyze() handler, one action per event-loop step.                  *)
(***************************************************************************)
EXTENDS Integers, Sequences, FiniteSets, TLC

VARIABLES
    \* ---- engine (one evaluation of the scorer / of mockAnalyze) ----
    pc,           \* stage of the engine evaluation, "off" in the App specifications
    content,      \* mockAnalyze's `content` argument
    signals,      \* the `signals` array
    confidence,   \* `confidence` (or -1 while not computed)
    verdict,      \* `verdict` (or "" while not computed)
    explanation,  \* the `explanation` array
    \* ---- evaluation time ----
    now,          \* the UTC calendar day of `new Date()`, <<year, month, day>>
    \* ---- App component state; a nullable cell (file, result) is <<>> when
    \* null and <<v>> when it holds v ----
    tab, input, url, file, loading, result, history,
    calls,        \* analyze() invocations suspended at an await
    started,      \* number of analyze() invocations so far
    \* ---- history variables of the verification ----
    resultOf,     \* invocation whose resData `result` shows (0: none)
    last,         \* <<the invocation that completed last, with how the remote answered>>
    log           \* every completed invocation, oldest first

engineVars == <<pc, content, signals, confidence, verdict, explanation>>
appVars == <<tab, input, url, file, loading, result, history, calls, started,
             resultOf, last, log>>
vars == <<pc, content, signals, confidence, verdict, explanation, now,
          tab, input, url, file, loading, result, history, calls, started,
          resultOf, last, log>>

(***************************************************************************)
(* Bounds of the model.                                                    *)
(***************************************************************************)
MaxFragments == 3
MaxRequests == 2
MaxLiveRequests == 1
MaxHistRequests == 11

(***************************************************************************)
(* JavaScript string primitives over character sequences.                  *)
(***************************************************************************)
UpperChars == <<"A", "B", "C", "D", "E", "F", "G", "H", "I", "J", "K", "L", "M",
                "N", "O", "P", "Q", "R", "S", "T", "U", "V", "W", "X", "Y", "Z">>
LowerChars == <<"a", "b", "c", "d", "e", "f", "g", "h", "i", "j", "k", "l", "m",
                "n", "o", "p", "q", "r", "s", "t", "u", "v", "w", "x", "y", "z">>
DigitChars == <<"0", "1", "2", "3", "4", "5", "6", "7", "8", "9">>
WhiteSpace == {" ", "\t", "\n"}

ToLowerChar(c) ==
    IF \E i \in DOMAIN UpperChars : UpperChars[i] = c
    THEN LowerChars[CHOOSE i \in DOMAIN UpperChars : UpperChars[i] = c]
    ELSE c

\* String.prototype.toLowerCase
ToLowerCase(s) == [i \in DOMAIN s |-> ToLowerChar(s[i])]

\* String.prototype.includes
StrIncludes(s, needle) ==
    \E i \in 1..(Len(s) - Len(needle) + 1) :
        SubSeq(s, i, i + Len(needle) - 1) = needle

\* String.prototype.trim
Trim(s) ==
    LET inked == {i \in DOMAIN s : s[i] \notin WhiteSpace}
        Least(S) == CHOOSE x \in S : \A y \in S : x <= y
        Most(S) == CHOOSE x \in S : \A y \in S : x >= y
    IN  IF inked = {} THEN <<>> ELSE SubSeq(s, Least(inked), Most(inked))

IsDigit(c) == \E i \in DOMAIN DigitChars : DigitChars[i] = c
DigitVal(c) == (CHOOSE i \in DOMAIN DigitChars : DigitChars[i] = c) - 1

\* the regular expression \d{2}-\d{2} anchored at position i (month and day)
MonthDayAt(s, i) ==
    /\ i + 4 <= Len(s)
    /\ IsDigit(s[i]) /\ IsDigit(s[i + 1])
    /\ s[i + 2] = "-"
    /\ IsDigit(s[i + 3]) /\ IsDigit(s[i + 4])

\* /\d{4}-\d{2}-\d{2}/ anchored at position i
AnyDateAt(s, i) ==
    /\ i + 9 <= Len(s)
    /\ \A k \in 0..3 : IsDigit(s[i + k])
    /\ s[i + 4] = "-"
    /\ MonthDayAt(s, i + 5)

\* /(20\d{2}-\d{2}-\d{2})/ anchored at position i
Date20At(s, i) ==
    /\ i + 9 <= Len(s)
    /\ s[i] = "2" /\ s[i + 1] = "0"
    /\ IsDigit(s[i + 2]) /\ IsDigit(s[i + 3])
    /\ s[i + 4] = "-"
    /\ MonthDayAt(s, i + 5)

\* lower.match(/\d{4}-\d{2}-\d{2}/) is not null
MatchesAnyDate(s) == \E i \in DOMAIN s : AnyDateAt(s, i)

\* lower.match(/(20\d{2}-\d{2}-\d{2})/): a match without the g flag is the
\* leftmost one; <<>> stands for null, else the captured group futureDate[1]
FirstDate20(s) ==
    LET hits == {i \in DOMAIN s : Date20At(s, i)}
    IN  IF hits = {} THEN <<>>
        ELSE LET i == CHOOSE x \in hits : \A y \in hits : x <= y
             IN  SubSeq(s, i, i + 9)

\* new Date("YYYY-MM-DD"): the UTC day <<y, m, d>>, or <<>> for an Invalid Date
\* (a month outside 01..12 or a day outside 01..31).  Days 29..31 of a month
\* that lacks them are read differently by different engines and are not among
\* the inputs.
ParseIsoDate(t) ==
    LET y == DigitVal(t[1]) * 1000 + DigitVal(t[2]) * 100
             + DigitVal(t[3]) * 10 + DigitVal(t[4])
        m == DigitVal(t[6]) * 10 + DigitVal(t[7])
        d == DigitVal(t[9]) * 10 + DigitVal(t[10])
    IN  IF m \in 1..12 /\ d \in 1..31 THEN <<y, m, d>> ELSE <<>>

\* d > new Date(): d is midnight UTC of its day, so it is later than the
\* current instant exactly when its day is after the current UTC day; an
\* Invalid Date compares false.
DateAfter(d, today) ==
    /\ d # <<>>
    /\ \/ d[1] > today[1]
       \/ d[1] = today[1] /\ d[2] > today[2]
       \/ d[1] = today[1] /\ d[2] = today[2] /\ d[3] > today[3]

(***************************************************************************)
(* The literals of mockAnalyze.                                            *)
(***************************************************************************)
LitShocking == <<"s", "h", "o", "c", "k", "i", "n", "g">>
LitWontBelieve == <<"y", "o", "u", " ", "w", "o", "n", "'", "t", " ",
                    "b", "e", "l", "i", "e", "v", "e">>
LitAccording == <<"a", "c", "c", "o", "r", "d", "i", "n", "g", " ", "t", "o", " ",
                  "o", "u", "r", " ", "s", "o", "u", "r", "c", "e", "s">>
LitHttps == <<"h", "t", "t", "p", "s">>
LitDeepfake == <<"d", "e", "e", "p", "f", "a", "k", "e">>
LitAiGenerated == <<"a", "i", "-", "g", "e", "n", "e", "r", "a", "t", "e", "d">>
LitCdc == <<"c", "d", "c">>
LitWho == <<"w", "h", "o">>
LitNyt == <<"n", "y", "t">>
LitContradictory == <<"c", "o", "n", "t", "r", "a", "d", "i", "c", "t", "o", "r", "y">>
LitButThen == <<"b", "u", "t", " ", "t", "h", "e", "n">>

TooShortLength == 10
BaseScore == 50
RealThreshold == 60
FakeThreshold == 35
HistoryCapacity == 10

Signals == {"too-short", "clickbait-y", "no-sources", "fabricated-dates",
            "image-manipulated", "authoritative-sources", "many-contradictions"}

\* Array.prototype.includes on the signals array
Includes(arr, x) == \E i \in DOMAIN arr : arr[i] = x

\* signals.push(x) when cond
PushIf(arr, cond, x) == IF cond THEN Append(arr, x) ELSE arr

Min2(a, b) == IF a <= b THEN a ELSE b
Max2(a, b) == IF a >= b THEN a ELSE b

\* faulty variant (C1): the score returned without clamping
ClampUnbounded(n, a, b) == n
\* Math.max(a, Math.min(b, n))
clamp(n, a, b) == Max2(a, Min2(b, n))

fakeConfidenceFromSignals(sigs) ==
    LET s0 == BaseScore
        s1 == IF Includes(sigs, "many-contradictions") THEN s0 - 30 ELSE s0
        s2 == IF Includes(sigs, "authoritative-sources") THEN s1 + 25 ELSE s1
        s3 == IF Includes(sigs, "fabricated-dates") THEN s2 - 20 ELSE s2
        s4 == IF Includes(sigs, "no-sources") THEN s3 - 15 ELSE s3
        s5 == IF Includes(sigs, "image-manipulated") THEN s4 - 25 ELSE s4
    IN  clamp(s5, 0, 100)


\* faulty variant (C2): strict comparisons at the two thresholds
VerdictOpenBounds(c) ==
    IF c > RealThreshold THEN "Likely Real"
    ELSE IF c < FakeThreshold THEN "Likely Fake"
    ELSE "Unclear / Needs Review"
\* the conditional expression that initialises `verdict`
Verdict(c) ==
    IF c >= RealThreshold THEN "Likely Real"
    ELSE IF c <= FakeThreshold THEN "Likely Fake"
    ELSE "Unclear / Needs Review"

\* the sentences of mockAnalyze (their em dashes written as hyphens)
SentenceTooShort == "The text is very short - short claims often lack context or sources."
SentenceClickbait == "Language matches clickbait patterns; be cautious of exaggerated claims."
SentenceNoSources == "Claims use vague 'sources' without links - prefer named verifiable sources."
SentenceDates == "The text references dates that appear to be in the future or inconsistent."
SentenceAuthoritative == "Mentions recognized organizations - try to verify via their official channels."
SentenceImage == "Mentions AI-generation or manipulation; images/video may be altered."
SentenceContradictions == "The text contains contradictory statements - check multiple reputable sources."
SentenceFallback == "No strong heuristic red flags detected in the quick demo check."

\* the sentence that explains a signal
SentenceOf(sig) ==
    CASE sig = "too-short" -> SentenceTooShort
      [] sig = "clickbait-y" -> SentenceClickbait
      [] sig = "no-sources" -> SentenceNoSources
      [] sig = "fabricated-dates" -> SentenceDates
      [] sig = "authoritative-sources" -> SentenceAuthoritative
      [] sig = "image-manipulated" -> SentenceImage
      [] sig = "many-contradictions" -> SentenceContradictions

\* faulty variant (C5): the sentences pushed in the order of the signals array
ExplanationLinesInArrayOrder(sigs) == [i \in DOMAIN sigs |-> SentenceOf(sigs[i])]
\* the run of `if (signals.includes(..)) explanation.push(..)` statements
ExplanationLines(sigs) ==
    LET e1 == PushIf(<<>>, Includes(sigs, "too-short"), SentenceTooShort)
        e2 == PushIf(e1, Includes(sigs, "clickbait-y"), SentenceClickbait)
        e3 == PushIf(e2, Includes(sigs, "no-sources"), SentenceNoSources)
        e4 == PushIf(e3, Includes(sigs, "fabricated-dates"), SentenceDates)
        e5 == PushIf(e4, Includes(sigs, "authoritative-sources"), SentenceAuthoritative)
        e6 == PushIf(e5, Includes(sigs, "image-manipulated"), SentenceImage)
    IN  PushIf(e6, Includes(sigs, "many-contradictions"), SentenceContradictions)

\* faulty variant (C4): no fallback sentence
WithoutFallback(lines) == lines
\* if (explanation.length === 0) explanation.push(<fallback>)
WithFallback(lines) == PushIf(lines, Len(lines) = 0, SentenceFallback)

Explanation(sigs) == WithFallback(ExplanationLines(sigs))

RecommendedActions ==
    << "Cross-check with 2 reputable outlets (official organizations, verified news sites)",
       "Search for the exact claim text in quotes - see if original context exists",
       "If image/video is claimed, reverse-image-search it or inspect metadata",
       "Prefer primary sources (official statements, reports) over social posts" >>

\* the signal checks of mockAnalyze, in statement order; c is `content`
\* (a string: analyze() always passes one), today the day of `new Date()`
ExtractSignals(c, today) ==
    LET lower == ToLowerCase(c)
        g1 == PushIf(<<>>, c = <<>> \/ Len(Trim(lower)) < TooShortLength, "too-short")
        g2 == PushIf(g1, StrIncludes(lower, LitShocking)
                         \/ StrIncludes(lower, LitWontBelieve), "clickbait-y")
        g3 == PushIf(g2, StrIncludes(lower, LitAccording)
                         /\ ~StrIncludes(lower, LitHttps), "no-sources")
        futureDate == FirstDate20(lower)
        g4 == PushIf(g3, /\ MatchesAnyDate(lower)
                         /\ futureDate # <<>>
                         /\ DateAfter(ParseIsoDate(futureDate), today),
                     "fabricated-dates")
        g5 == PushIf(g4, StrIncludes(lower, LitDeepfake)
                         \/ StrIncludes(lower, LitAiGenerated), "image-manipulated")
        g6 == PushIf(g5, StrIncludes(lower, LitCdc) \/ StrIncludes(lower, LitWho)
                         \/ StrIncludes(lower, LitNyt), "authoritative-sources")
    IN  PushIf(g6, StrIncludes(lower, LitContradictory)
                   \/ StrIncludes(lower, LitButThen), "many-contradictions")

\* the value mockAnalyze resolves with
MockAnalyze(c, today) ==
    LET sigs == ExtractSignals(c, today)
        conf == fakeConfidenceFromSignals(sigs)
    IN  [verdict |-> Verdict(conf),
         confidence |-> conf,
         signals |-> sigs,
         explanation |-> Explanation(sigs),
         recommendedActions |-> RecommendedActions]

(***************************************************************************)
(* Inputs of the engine.                                                   *)
(***************************************************************************)
FragAttribution == <<"A", "c", "c", "o", "r", "d", "i", "n", "g", " ", "t", "o", " ",
                     "o", "u", "r", " ", "s", "o", "u", "r", "c", "e", "s">>
FragSpace == <<" ">>
FragHttpUrl == <<"h", "t", "t", "p", ":", "/", "/", "x", ".", "o", "r", "g">>
FragHttpsUrl == <<"h", "t", "t", "p", "s", ":", "/", "/", "x", ".", "o", "r", "g">>
FragPastDate == <<"2", "0", "2", "0", "-", "0", "1", "-", "0", "1">>
FragFutureDate == <<"2", "0", "9", "9", "-", "0", "1", "-", "0", "1">>
FragNextCentury == <<"2", "1", "0", "0", "-", "0", "1", "-", "0", "1">>
FragBadMonth == <<"2", "0", "9", "9", "-", "1", "3", "-", "0", "1">>
FragClickbait == <<"S", "H", "O", "C", "K", "I", "N", "G">>
FragDeepfake == <<"d", "e", "e", "p", "f", "a", "k", "e">>
FragCdc == <<"C", "D", "C">>
FragButThen == <<"b", "u", "t", " ", "t", "h", "e", "n">>

Fragments == {FragAttribution, FragSpace, FragHttpUrl, FragHttpsUrl, FragPastDate,
              FragFutureDate, FragNextCentury, FragBadMonth, FragClickbait,
              FragDeepfake, FragCdc, FragButThen}

RECURSIVE Concat(_)
Concat(parts) == IF parts = <<>> THEN <<>> ELSE Head(parts) \o Concat(Tail(parts))

\* the texts a user can type: up to MaxFragments fragments, concatenated
Contents ==
    {Concat(parts) : parts \in UNION {[1..k -> Fragments] : k \in 0..MaxFragments}}

\* the UTC days on which an analysis is evaluated
Today == <<2026, 11, 4>>
EvaluationDays == {Today, <<2099, 1, 1>>}

RECURSIVE Arrangements(_)
Arrangements(S) ==
    IF S = {} THEN {<<>>}
    ELSE UNION {{<<x>> \o p : p \in Arrangements(S \ {x})} : x \in S}

\* every signals array without repetition: each subset of the vocabulary in
\* each order
SignalLists == UNION {Arrangements(T) : T \in SUBSET Signals}

(***************************************************************************)
(* The engine's specifications.                                            *)
(***************************************************************************)
EngineOff ==
    /\ pc = "off" /\ content = <<>> /\ signals = <<>>
    /\ confidence = -1 /\ verdict = "" /\ explanation = <<>>

AppOff ==
    /\ tab = "text" /\ input = <<>> /\ url = <<>> /\ file = <<>>
    /\ loading = FALSE /\ result = <<>> /\ history = <<>>
    /\ calls = {} /\ started = 0
    /\ resultOf = 0 /\ last = <<>> /\ log = <<>>

\* the scorer's inputs: a signals array, or a confidence handed to the
\* verdict expression
InitScore ==
    /\ AppOff
    /\ now \in EvaluationDays
    /\ content = <<>> /\ verdict = "" /\ explanation = <<>>
    /\ \/ pc = "signals" /\ signals \in SignalLists /\ confidence = -1
       \/ pc = "confidence" /\ signals = <<>> /\ confidence \in 0..100

\* mockAnalyze from `const confidence = ...` to the explanation fallback
ScoreSignals ==
    /\ pc = "signals"
    /\ confidence' = fakeConfidenceFromSignals(signals)
    /\ verdict' = Verdict(confidence')
    /\ explanation' = Explanation(signals)
    /\ pc' = "scored"
    /\ UNCHANGED <<content, signals, now>>
    /\ UNCHANGED appVars

\* the verdict expression applied to a given confidence
ClassifyConfidence ==
    /\ pc = "confidence"
    /\ verdict' = Verdict(confidence)
    /\ pc' = "classified"
    /\ UNCHANGED <<content, signals, confidence, explanation, now>>
    /\ UNCHANGED appVars

NextScore == ScoreSignals \/ ClassifyConfidence

SpecScore == InitScore /\ [][NextScore]_vars

InitExtract ==
    /\ AppOff
    /\ now \in EvaluationDays
    /\ pc = "content" /\ content \in Contents
    /\ signals = <<>> /\ confidence = -1 /\ verdict = "" /\ explanation = <<>>

\* one call of mockAnalyze({type, content}) run to completion
RunMockAnalyze ==
    /\ pc = "content"
    /\ LET r == MockAnalyze(content, now)
       IN  /\ signals' = r.signals
           /\ confidence' = r.confidence
           /\ verdict' = r.verdict
           /\ explanation' = r.explanation
    /\ pc' = "analyzed"
    /\ UNCHANGED <<content, now>>
    /\ UNCHANGED appVars

NextExtract == RunMockAnalyze

SpecExtract == InitExtract /\ [][NextExtract]_vars


(***************************************************************************)
(* Properties of the scorer (SpecScore).                                   *)
(***************************************************************************)
SetOf(arr) == {arr[i] : i \in DOMAIN arr}

DeltaOf(sig) ==
    CASE sig = "many-contradictions" -> -30
      [] sig = "authoritative-sources" -> 25
      [] sig = "fabricated-dates" -> -20
      [] sig = "no-sources" -> -15
      [] sig = "image-manipulated" -> -25
      [] OTHER -> 0

RECURSIVE SumDeltas(_)
SumDeltas(S) ==
    IF S = {} THEN 0
    ELSE LET x == CHOOSE y \in S : TRUE IN DeltaOf(x) + SumDeltas(S \ {x})

Bounded(n) == IF n < 0 THEN 0 ELSE IF n > 100 THEN 100 ELSE n

\* C1: for every signals array (any subset, any order) the confidence is 50
\* plus the deltas of the signals present, clamped to [0,100], and so an
\* integer of 0..100.
C1_ConfidenceIsClampedSum ==
    pc = "scored" =>
        /\ confidence = Bounded(50 + SumDeltas(SetOf(signals)))
        /\ confidence \in 0..100

\* C1 witness: the four negative signals together drive the sum below 0 and
\* the confidence is clamped to 0.
C1_Witness ==
    /\ pc = "scored"
    /\ {"many-contradictions", "fabricated-dates", "no-sources", "image-manipulated"}
           \subseteq SetOf(signals)
    /\ ~Includes(signals, "authoritative-sources")
    /\ confidence = 0

\* C2: the verdict is decided by the confidence alone: Likely Real from 60
\* up, Likely Fake up to 35, Unclear / Needs Review from 36 to 59, whether the
\* confidence came from a signals array or was given directly.
C2_VerdictFromConfidence ==
    pc \in {"scored", "classified"} =>
        /\ confidence >= 60 => verdict = "Likely Real"
        /\ confidence <= 35 => verdict = "Likely Fake"
        /\ confidence \in 36..59 => verdict = "Unclear / Needs Review"

\* C2 witness: authoritative-sources with no-sources scores exactly 60 and is
\* classified Likely Real.
C2_Witness ==
    /\ pc = "scored"
    /\ SetOf(signals) = {"authoritative-sources", "no-sources"}
    /\ confidence = 60
    /\ verdict = "Likely Real"

\* C4: the explanation is never empty: it holds one sentence per signal
\* present, and the fallback sentence alone exactly when no signal gave one.
C4_ExplanationNonEmpty ==
    pc = "scored" =>
        /\ Len(explanation) >= 1
        /\ \A sig \in SetOf(signals) : Includes(explanation, SentenceOf(sig))
        /\ IF SetOf(signals) = {}
           THEN explanation = <<SentenceFallback>>
           ELSE /\ Len(explanation) = Cardinality(SetOf(signals))
                /\ ~Includes(explanation, SentenceFallback)

\* C4 witness: an empty signals array yields the fallback sentence.
C4_Witness ==
    /\ pc = "scored"
    /\ signals = <<>>
    /\ explanation = <<SentenceFallback>>

PositionIn(seq, x) == CHOOSE i \in DOMAIN seq : seq[i] = x

\* the sentences of the signals present stand in the order `order` gives
SentencesFollow(order) ==
    pc = "scored" =>
        \A a, b \in SetOf(signals) :
            PositionIn(order, a) < PositionIn(order, b) =>
                /\ Includes(explanation, SentenceOf(a))
                /\ Includes(explanation, SentenceOf(b))
                /\ PositionIn(explanation, SentenceOf(a))
                       < PositionIn(explanation, SentenceOf(b))

\* C5 (as claimed): the sentences appear in the order Clickbait, NoSources,
\* FabricatedDates, ImageManipulated, AuthoritativeSources,
\* ManyContradictions, TooShort.
C5_ClaimedOrder ==
    SentencesFollow(<<"clickbait-y", "no-sources", "fabricated-dates",
                      "image-manipulated", "authoritative-sources",
                      "many-contradictions", "too-short">>)

\* C5 (amended): the sentences appear in the order TooShort, Clickbait,
\* NoSources, FabricatedDates, AuthoritativeSources, ImageManipulated,
\* ManyContradictions.
C5_CodeOrder ==
    SentencesFollow(<<"too-short", "clickbait-y", "no-sources", "fabricated-dates",
                      "authoritative-sources", "image-manipulated",
                      "many-contradictions">>)

\* C5 witness: a signals array that lists image-manipulated before
\* authoritative-sources and too-short last, explained with too-short first
\* and authoritative-sources before image-manipulated.
C5_Witness ==
    /\ pc = "scored"
    /\ signals = <<"image-manipulated", "authoritative-sources", "too-short">>
    /\ explanation = <<SentenceTooShort, SentenceAuthoritative, SentenceImage>>

(***************************************************************************)
(* Properties of the signal extractor (SpecExtract).                       *)
(***************************************************************************)
\* an ISO-style date token of s that is a calendar day after `today`
HasFutureIsoDate(s, today) ==
    \E i \in DOMAIN s :
        /\ AnyDateAt(s, i)
        /\ DateAfter(ParseIsoDate(SubSeq(s, i, i + 9)), today)

\* a URL-like substring: a scheme separator
HasUrl(s) == StrIncludes(s, <<":", "/", "/">>)

\* C6: fabricated-dates is among the signals exactly when the content holds
\* an ISO date token that is a calendar day after the evaluation time.
C6_FutureDateIffFabricated ==
    pc = "analyzed" =>
        (Includes(signals, "fabricated-dates")
            <=> HasFutureIsoDate(ToLowerCase(content), now))

\* C7: no-sources is among the signals exactly when the case-folded content
\* holds "according to our sources" and no URL-like substring.
C7_NoSourcesIffNoUrl ==
    pc = "analyzed" =>
        (Includes(signals, "no-sources")
            <=> /\ StrIncludes(ToLowerCase(content), LitAccording)
                /\ ~HasUrl(ToLowerCase(content)))


(***************************************************************************)
(* The App component.                                                      *)
(***************************************************************************)
Tabs == {"text", "url", "image"}

\* what the user types or picks
InputTexts == {FragAttribution \o FragSpace \o FragCdc}
UrlTexts == {FragHttpsUrl}
Files == {[name |-> FragDeepfake \o <<".", "p", "n", "g">>]}

\* the JSON bodies the remote endpoint answers with
RemoteBodies ==
    {[verdict |-> "Likely Real", confidence |-> 90, signals |-> <<>>,
      explanation |-> <<"Verified by the fact-checking service.">>,
      recommendedActions |-> <<>>]}

\* every content a payload can carry, and mockAnalyze's result for each of
\* them on each evaluation day (mockAnalyze is a function of the two)
PayloadContents == {<<>>} \cup InputTexts \cup UrlTexts \cup {f.name : f \in Files}
LocalResults ==
    [c \in PayloadContents |-> [d \in EvaluationDays |-> MockAnalyze(c, d)]]

\* `const payload = tab === "text" ? ... : tab === "url" ? ... : ...`
Payload ==
    IF tab = "text" THEN [type |-> "text", content |-> input]
    ELSE IF tab = "url" THEN [type |-> "url", content |-> url]
    ELSE [type |-> "image", content |-> IF file # <<>> THEN file[1].name ELSE <<>>]

\* faulty variant (C9): the button is never disabled
AlwaysEnabled == TRUE
\* <button onClick={analyze} disabled={loading}>
AnalyzeEnabled == ~loading

\* faulty variant (C3): the body is read whatever the status
ResponseNeverChecked(ok) == "json"
\* `if (resp.ok) resData = await resp.json(); else resData = await mockAnalyze(payload)`
PhaseAfterResponse(ok) == IF ok THEN "json" ELSE "mock"

\* faulty variant (C10): loading is not reset when analyze() ends
LoadingLeftSet == loading
\* `finally { setLoading(false); }`
FinallyLoading == FALSE

\* faulty variant (C8): the entry is prepended and nothing is dropped
UnslicedHistory(h, e) == <<e>> \o h
\* `[{...}, ...h].slice(0, 10)`
PushHistory(h, e) ==
    SubSeq(<<e>> \o h, 1, Min2(Len(h) + 1, HistoryCapacity))

\* analyze() from its first statement to `await fetch(...)`; cap bounds the
\* number of invocations
Analyze(cap) ==
    /\ AnalyzeEnabled
    /\ started < cap
    /\ loading' = TRUE
    /\ result' = <<>>
    /\ resultOf' = 0
    /\ started' = started + 1
    /\ calls' = calls \cup {[id |-> started + 1, payload |-> Payload,
                             phase |-> "fetch", outcome |-> "pending"]}
    /\ UNCHANGED <<tab, input, url, file, history, last, log, now>>
    /\ UNCHANGED engineVars

\* a suspended invocation moves to its next await
Resume(c, phase, outcome) ==
    /\ calls' = (calls \ {c}) \cup {[c EXCEPT !.phase = phase, !.outcome = outcome]}
    /\ UNCHANGED <<tab, input, url, file, loading, result, history, started,
                   resultOf, last, log, now>>
    /\ UNCHANGED engineVars

\* fetch resolves with resp.ok
FetchOk(c) ==
    /\ c \in calls /\ c.phase = "fetch"
    /\ Resume(c, PhaseAfterResponse(TRUE), "ok")

\* fetch resolves with a non-success status
FetchNotOk(c) ==
    /\ c \in calls /\ c.phase = "fetch"
    /\ Resume(c, PhaseAfterResponse(FALSE), "status")

\* fetch rejects (network failure): `catch (e) { resData = await mockAnalyze(payload) }`
FetchRejects(c) ==
    /\ c \in calls /\ c.phase = "fetch"
    /\ Resume(c, "mock", "network")

\* resp.json() rejects (unparseable body): the same catch
JsonRejects(c) ==
    /\ c \in calls /\ c.phase = "json"
    /\ Resume(c, "mock", IF c.outcome = "ok" THEN "parse" ELSE c.outcome)

\* analyze() from `setResult(resData)` through the finally block
Complete(c, body, resData) ==
    LET entry == [id |-> c.id, query |-> c.payload, res |-> resData]
    IN  /\ result' = <<resData>>
        /\ resultOf' = c.id
        /\ history' = PushHistory(history, entry)
        /\ loading' = FinallyLoading
        /\ calls' = calls \ {c}
        /\ last' = <<[id |-> c.id, payload |-> c.payload, outcome |-> c.outcome,
                      body |-> body, res |-> resData]>>
        /\ log' = Append(log, entry)
        /\ UNCHANGED <<tab, input, url, file, started, now>>
        /\ UNCHANGED engineVars

\* resp.json() resolves with the parsed body
JsonResolves(c, b) ==
    /\ c \in calls /\ c.phase = "json"
    /\ Complete(c, <<b>>, b)

\* the fallback mockAnalyze(payload) resolves
MockResolves(c) ==
    /\ c \in calls /\ c.phase = "mock"
    /\ Complete(c, <<>>, LocalResults[c.payload.content][now])

\* a tab button's onClick
SetTab(t) ==
    /\ tab' = t
    /\ UNCHANGED <<input, url, file, loading, result, history, calls, started,
                   resultOf, last, log, now>>
    /\ UNCHANGED engineVars

\* the textarea's onChange (rendered on the text tab)
SetInput(v) ==
    /\ tab = "text"
    /\ input' = v
    /\ UNCHANGED <<tab, url, file, loading, result, history, calls, started,
                   resultOf, last, log, now>>
    /\ UNCHANGED engineVars

\* the URL input's onChange (rendered on the url tab)
SetUrl(v) ==
    /\ tab = "url"
    /\ url' = v
    /\ UNCHANGED <<tab, input, file, loading, result, history, calls, started,
                   resultOf, last, log, now>>
    /\ UNCHANGED engineVars

\* onFileChange (the file input is rendered on the image tab); f is
\* e.target.files[0], <<>> when the selection is emptied
onFileChange(f) ==
    /\ tab = "image"
    /\ file' = f
    /\ UNCHANGED <<tab, input, url, loading, result, history, calls, started,
                   resultOf, last, log, now>>
    /\ UNCHANGED engineVars

\* the Clear button's onClick
Clear ==
    /\ input' = <<>>
    /\ url' = <<>>
    /\ file' = <<>>
    /\ UNCHANGED <<tab, loading, result, history, calls, started,
                   resultOf, last, log, now>>
    /\ UNCHANGED engineVars

\* a pending promise of some suspended invocation settles
Settles ==
    \/ \E c \in calls : FetchOk(c)
    \/ \E c \in calls : FetchNotOk(c)
    \/ \E c \in calls : FetchRejects(c)
    \/ \E c \in calls : JsonRejects(c)
    \/ \E c \in calls, b \in RemoteBodies : JsonResolves(c, b)
    \/ \E c \in calls : MockResolves(c)

Edits ==
    \/ \E t \in Tabs : SetTab(t)
    \/ \E v \in InputTexts : SetInput(v)
    \/ \E v \in UrlTexts : SetUrl(v)
    \/ \E f \in {<<>>} \cup {<<x>> : x \in Files} : onFileChange(f)
    \/ Clear

InitApp ==
    /\ EngineOff
    /\ now = Today
    /\ tab = "text" /\ input = <<>> /\ url = <<>> /\ file = <<>>
    /\ loading = FALSE /\ result = <<>> /\ history = <<>>
    /\ calls = {} /\ started = 0
    /\ resultOf = 0 /\ last = <<>> /\ log = <<>>

NextApp ==
    \/ Analyze(MaxRequests)
    \/ Settles
    \/ Edits

SpecApp == InitApp /\ [][NextApp]_vars

NextLive ==
    \/ Analyze(MaxLiveRequests)
    \/ Settles
    \/ Edits

\* every pending fetch, body read and fallback eventually settles
SpecLive ==
    /\ InitApp /\ [][NextLive]_vars
    /\ WF_vars(Settles)

\* the user only clicks Analyze, often enough to overflow the history
NextHistory ==
    \/ Analyze(MaxHistRequests)
    \/ Settles

SpecHistory == InitApp /\ [][NextHistory]_vars


(***************************************************************************)
(* Properties of the App component.                                        *)
(***************************************************************************)
\* C3: every analyze() invocation yields exactly one result: the remote body
\* when the remote answered with success and a parseable body, else the local
\* engine's result for the same payload; no invocation is lost or completes
\* twice, and the result of the invocation that completed last is the one
\* shown once loading is over.
C3_OneResultRemoteOrFallback ==
    /\ started = Cardinality(calls) + Len(log)
    /\ \A i, j \in DOMAIN log : log[i].id = log[j].id => i = j
    /\ \A c \in calls : \A i \in DOMAIN log : log[i].id # c.id
    /\ last # <<>> =>
        LET l == last[1] IN
        /\ l.outcome \in {"ok", "status", "network", "parse"}
        /\ l.outcome = "ok" => l.body # <<>> /\ l.res = l.body[1]
        /\ l.outcome # "ok" => l.res = MockAnalyze(l.payload.content, now)
        /\ log[Len(log)] = [id |-> l.id, query |-> l.payload, res |-> l.res]
        /\ ~loading => result = <<l.res>>

\* C3 witness: the remote answered success with an unparseable body and the
\* local result for the typed text is shown.
C3_Witness ==
    /\ last # <<>>
    /\ last[1].outcome = "parse"
    /\ last[1].payload.content # <<>>
    /\ ~loading
    /\ result = <<MockAnalyze(last[1].payload.content, now)>>

\* C8: the history holds at most 10 entries, which are the min(n,10) most
\* recently completed analyses, most recent first.
C8_HistoryIsLastTen ==
    /\ Len(history) <= 10
    /\ Len(history) = Min2(Len(log), 10)
    /\ \A i \in DOMAIN history : history[i] = log[Len(log) - i + 1]

\* C8 witness: after the eleventh completed analysis the history holds ten
\* entries, the first analysis dropped.
C8_Witness ==
    /\ Len(log) = 11
    /\ Len(history) = 10
    /\ history[1].id = 11
    /\ history[10].id = 2

\* C9: a displayed result is the result of the most recently started
\* analyze() invocation.
C9_ShownResultIsLatest ==
    result # <<>> =>
        /\ resultOf = started
        /\ last # <<>> /\ last[1].id = started /\ result = <<last[1].res>>

\* C9 witness: the result of a second analysis is displayed, the text having
\* been edited since the first one completed.
C9_Witness ==
    /\ started = 2
    /\ result # <<>>
    /\ resultOf = 2
    /\ log[1].query # log[2].query

\* C10: every started analyze() sets loading, and whenever loading is set it
\* is eventually cleared, given that every pending promise settles.
C10_LoadingEventuallyCleared ==
    /\ [][started' > started => loading']_vars
    /\ loading ~> ~loading

\* C10 witness: an analysis whose fetch failed has completed through the
\* fallback and loading is cleared again.
C10_Witness ==
    /\ started = 1
    /\ last # <<>>
    /\ last[1].outcome = "network"
    /\ ~loading

=============================================================================
